---- MODULE Spec2Model ----
(***************************************************************************)
(* Model of script.js of the NIS2 exposure questionnaire: the session      *)
(* state (state.step, state.answers), the step panels of the page, the     *)
(* pending setTimeout callbacks, the result display, and the handlers      *)
(* selectOption, validateStep3, goBack, restartAssessment and the timer    *)
(* callbacks.  The handlers are global functions: they can be called with  *)
(* any argument in any step.  The state of the four checkboxes is the      *)
(* input of validateStep3 and is drawn afresh at each submission.          *)
(***************************************************************************)
EXTENDS Integers, Sequences, FiniteSets, TLC

VARIABLES step, answers, active, selected, timers, tierBadge, resultContent

vars == <<step, answers, active, selected, timers, tierBadge, resultContent>>

\* Longest queue of pending setTimeout callbacks explored.
MaxTimers == 2

null == "null"

EntitySizes == {"small", "medium", "large"}
Sensitivities == {"low", "medium", "high"}
Maturities == {"none", "basic", "structured", "iso"}
Infrastructures == [cloud : BOOLEAN, mfa : BOOLEAN, incidentProcess : BOOLEAN, supplyChain : BOOLEAN]

\* script.js:24-30, the five step panels of the page
steps == 1..5

\* values carried by the option cards of a step panel
OptionValues(s) ==
    CASE s = 1 -> EntitySizes
      [] s = 2 -> Sensitivities
      [] s = 4 -> Maturities
      [] OTHER -> {"other"}

\* script.js:10-20 (and 272-282), the empty answer record
emptyAnswers ==
    [entitySize |-> null,
     serviceSensitivity |-> null,
     digitalInfrastructure |-> [cloud |-> FALSE, mfa |-> FALSE, incidentProcess |-> FALSE, supplyChain |-> FALSE],
     governanceMaturity |-> null]

noSelection == [s \in {1, 2, 4} |-> null]

Min(a, b) == IF a < b THEN a ELSE b

\* script.js:139-144, the infrastructure risk before the cap
infraRisk(d) ==
    (IF d.cloud THEN 1 ELSE 0) + (IF ~d.mfa THEN 2 ELSE 0)
    + (IF ~d.incidentProcess THEN 2 ELSE 0) + (IF d.supplyChain THEN 1 ELSE 0)

\* the infrastructure risk added without the cap
infraContribution_uncapped(d) == infraRisk(d)

\* script.js:146, what the infrastructure adds to the score
infraContribution(d) == Min(infraRisk(d), 3)

\* score with the weights of large and medium entities exchanged
score_sizeSwapped(a) ==
    LET sizeW == IF a.entitySize = "large" THEN 2
                 ELSE IF a.entitySize = "medium" THEN 3 ELSE 1
        sensW == IF a.serviceSensitivity = "high" THEN 3
                 ELSE IF a.serviceSensitivity = "medium" THEN 2 ELSE 1
        governanceModifier ==
            IF a.governanceMaturity = "none" THEN 2
            ELSE IF a.governanceMaturity = "basic" THEN 1
            ELSE IF a.governanceMaturity = "structured" THEN -1
            ELSE IF a.governanceMaturity = "iso" THEN -2 ELSE 0
    IN sizeW + sensW + infraContribution(a.digitalInfrastructure) + governanceModifier

\* score with the sign of the iso modifier lost
score_isoPositive(a) ==
    LET sizeW == IF a.entitySize = "large" THEN 3
                 ELSE IF a.entitySize = "medium" THEN 2 ELSE 1
        sensW == IF a.serviceSensitivity = "high" THEN 3
                 ELSE IF a.serviceSensitivity = "medium" THEN 2 ELSE 1
        governanceModifier ==
            IF a.governanceMaturity = "none" THEN 2
            ELSE IF a.governanceMaturity = "basic" THEN 1
            ELSE IF a.governanceMaturity = "structured" THEN -1
            ELSE IF a.governanceMaturity = "iso" THEN 2 ELSE 0
    IN sizeW + sensW + infraContribution(a.digitalInfrastructure) + governanceModifier

\* script.js:125-156, the score before the thresholds
score(a) ==
    LET sizeW == IF a.entitySize = "large" THEN 3
                 ELSE IF a.entitySize = "medium" THEN 2 ELSE 1
        sensW == IF a.serviceSensitivity = "high" THEN 3
                 ELSE IF a.serviceSensitivity = "medium" THEN 2 ELSE 1
        governanceModifier ==
            IF a.governanceMaturity = "none" THEN 2
            ELSE IF a.governanceMaturity = "basic" THEN 1
            ELSE IF a.governanceMaturity = "structured" THEN -1
            ELSE IF a.governanceMaturity = "iso" THEN -2 ELSE 0
    IN sizeW + sensW + infraContribution(a.digitalInfrastructure) + governanceModifier

\* calculateTier with the Tier3 threshold made exclusive
calculateTier_exclusive(a) ==
    IF score(a) > 6 THEN "tier-3"
    ELSE IF score(a) >= 4 THEN "tier-2" ELSE "tier-1"

\* calculateTier whose three tests leave the score 6 without a tier
calculateTier_gap(a) ==
    IF score(a) > 6 THEN "tier-3"
    ELSE IF score(a) >= 4 /\ score(a) < 6 THEN "tier-2"
    ELSE IF score(a) < 4 THEN "tier-1" ELSE "undefined"

\* script.js:122-166
calculateTier(a) ==
    IF score(a) >= 6 THEN "tier-3"
    ELSE IF score(a) >= 4 THEN "tier-2" ELSE "tier-1"

\* script.js:173-216, the keys of the tiers table
tierKeys == {"tier-1", "tier-2", "tier-3"}

\* script.js:173-222, the label written to the badge and the title of the content
tierLabel(tier) ==
    CASE tier = "tier-1" -> "Exposition Limitee"
      [] tier = "tier-2" -> "Exposition Importante"
      [] tier = "tier-3" -> "Exposition Critique"

tierTitle(tier) ==
    CASE tier = "tier-1" -> "Niveau 1"
      [] tier = "tier-2" -> "Niveau 2"
      [] tier = "tier-3" -> "Niveau 3"

\* goToStep recording the zero-based index of the panel
goToStep_zeroBased(stepNumber) ==
    /\ active' = IF stepNumber \in steps THEN {stepNumber} ELSE {}
    /\ step' = IF stepNumber \in steps THEN stepNumber - 1 ELSE step

\* goToStep that does not hide the panels already shown
goToStep_keepActive(stepNumber) ==
    /\ active' = IF stepNumber \in steps THEN active \cup {stepNumber} ELSE active
    /\ step' = IF stepNumber \in steps THEN stepNumber ELSE step

\* script.js:39-51
goToStep(stepNumber) ==
    /\ active' = IF stepNumber \in steps THEN {stepNumber} ELSE {}
    /\ step' = IF stepNumber \in steps THEN stepNumber ELSE step

\* script.js:80-91
updateSelectionUI(s, value) ==
    selected' = [selected EXCEPT ![s] = value]

\* selectOption whose step-2 branch writes the field of step 1
selectOption_wrongField(s, value) ==
    /\ s \in {1, 2, 4} => Len(timers) < MaxTimers
    /\ IF s = 1 THEN
           /\ answers' = [answers EXCEPT !.entitySize = value]
           /\ updateSelectionUI(1, value)
           /\ timers' = Append(timers, "goToStep2")
       ELSE IF s = 2 THEN
           /\ answers' = [answers EXCEPT !.entitySize = value]
           /\ updateSelectionUI(2, value)
           /\ timers' = Append(timers, "goToStep3")
       ELSE IF s = 4 THEN
           /\ answers' = [answers EXCEPT !.governanceMaturity = value]
           /\ updateSelectionUI(4, value)
           /\ timers' = Append(timers, "calculateAndShowResults")
       ELSE UNCHANGED <<answers, selected, timers>>
    /\ UNCHANGED <<step, active, tierBadge, resultContent>>

\* selectOption that keeps an answer already recorded
selectOption_keepFirst(s, value) ==
    /\ s \in {1, 2, 4} => Len(timers) < MaxTimers
    /\ IF s = 1 THEN
           /\ answers' = IF answers.entitySize = null
                         THEN [answers EXCEPT !.entitySize = value] ELSE answers
           /\ updateSelectionUI(1, value)
           /\ timers' = Append(timers, "goToStep2")
       ELSE IF s = 2 THEN
           /\ answers' = IF answers.serviceSensitivity = null
                         THEN [answers EXCEPT !.serviceSensitivity = value] ELSE answers
           /\ updateSelectionUI(2, value)
           /\ timers' = Append(timers, "goToStep3")
       ELSE IF s = 4 THEN
           /\ answers' = IF answers.governanceMaturity = null
                         THEN [answers EXCEPT !.governanceMaturity = value] ELSE answers
           /\ updateSelectionUI(4, value)
           /\ timers' = Append(timers, "calculateAndShowResults")
       ELSE UNCHANGED <<answers, selected, timers>>
    /\ UNCHANGED <<step, active, tierBadge, resultContent>>

\* script.js:58-73
selectOption(s, value) ==
    /\ s \in {1, 2, 4} => Len(timers) < MaxTimers
    /\ IF s = 1 THEN
           /\ answers' = [answers EXCEPT !.entitySize = value]
           /\ updateSelectionUI(1, value)
           /\ timers' = Append(timers, "goToStep2")
       ELSE IF s = 2 THEN
           /\ answers' = [answers EXCEPT !.serviceSensitivity = value]
           /\ updateSelectionUI(2, value)
           /\ timers' = Append(timers, "goToStep3")
       ELSE IF s = 4 THEN
           /\ answers' = [answers EXCEPT !.governanceMaturity = value]
           /\ updateSelectionUI(4, value)
           /\ timers' = Append(timers, "calculateAndShowResults")
       ELSE UNCHANGED <<answers, selected, timers>>
    /\ UNCHANGED <<step, active, tierBadge, resultContent>>

\* validateStep3 that keeps the recorded mfa flag
validateStep3_partial(checkboxes) ==
    /\ answers' = [answers EXCEPT !.digitalInfrastructure =
                       [checkboxes EXCEPT !.mfa = answers.digitalInfrastructure.mfa]]
    /\ goToStep(4)
    /\ UNCHANGED <<selected, timers, tierBadge, resultContent>>

\* script.js:96-106
validateStep3(checkboxes) ==
    /\ answers' = [answers EXCEPT !.digitalInfrastructure = checkboxes]
    /\ goToStep(4)
    /\ UNCHANGED <<selected, timers, tierBadge, resultContent>>

\* goBack that clears the answers on its way back
goBack_clearing(currentStep) ==
    /\ IF currentStep > 1 THEN goToStep(currentStep - 1)
       ELSE UNCHANGED <<step, active>>
    /\ answers' = emptyAnswers
    /\ UNCHANGED <<selected, timers, tierBadge, resultContent>>

\* script.js:112-116
goBack(currentStep) ==
    /\ IF currentStep > 1 THEN goToStep(currentStep - 1)
       ELSE UNCHANGED <<step, active>>
    /\ UNCHANGED <<answers, selected, timers, tierBadge, resultContent>>

\* calculateAndShowResults that leaves the previous result content in place
calculateAndShowResults_stale ==
    LET tier == calculateTier(answers) IN
    /\ tierBadge' = [textContent |-> tierLabel(tier), className |-> tier]
    /\ UNCHANGED resultContent
    /\ goToStep(5)
    /\ UNCHANGED <<answers, selected>>

\* calculateAndShowResults computing from the record created at load time
calculateAndShowResults_initialRecord ==
    LET tier == calculateTier(emptyAnswers) IN
    /\ tierBadge' = [textContent |-> tierLabel(tier), className |-> tier]
    /\ resultContent' = tierTitle(tier)
    /\ goToStep(5)
    /\ UNCHANGED <<answers, selected>>

\* script.js:259-265 (generateResults throws on a tier that is no key of its
\* table, script.js:218-221, and the callback ends there)
calculateAndShowResults ==
    LET tier == calculateTier(answers) IN
    IF tier \in tierKeys THEN
        /\ tierBadge' = [textContent |-> tierLabel(tier), className |-> tier]
        /\ resultContent' = tierTitle(tier)
        /\ goToStep(5)
        /\ UNCHANGED <<answers, selected>>
    ELSE UNCHANGED <<tierBadge, resultContent, step, active, answers, selected>>

\* restartAssessment that also drops the pending callbacks
restartAssessment_cancelling ==
    /\ answers' = emptyAnswers
    /\ selected' = noSelection
    /\ goToStep(1)
    /\ timers' = <<>>
    /\ UNCHANGED <<tierBadge, resultContent>>

\* script.js:270-295 (the checkboxes it unticks are the input of the next
\* validateStep3, drawn afresh there)
restartAssessment ==
    /\ answers' = emptyAnswers
    /\ selected' = noSelection
    /\ goToStep(1)
    /\ UNCHANGED <<timers, tierBadge, resultContent>>

\* script.js:63, 67, 71: the oldest pending callback runs
timeout ==
    /\ timers # <<>>
    /\ timers' = Tail(timers)
    /\ CASE Head(timers) = "goToStep2" ->
                goToStep(2) /\ UNCHANGED <<answers, selected, tierBadge, resultContent>>
         [] Head(timers) = "goToStep3" ->
                goToStep(3) /\ UNCHANGED <<answers, selected, tierBadge, resultContent>>
         [] Head(timers) = "calculateAndShowResults" ->
                calculateAndShowResults

\* script.js:8-21, 32-33, 298-301: the page once DOMContentLoaded has run
Init ==
    /\ step = 1
    /\ answers = emptyAnswers
    /\ active = {1}
    /\ selected = noSelection
    /\ timers = <<>>
    /\ tierBadge = [textContent |-> "", className |-> "tier-badge"]
    /\ resultContent = ""

Next ==
    \/ \E s \in steps : \E value \in OptionValues(s) : selectOption(s, value)
    \/ \E checkboxes \in Infrastructures : validateStep3(checkboxes)
    \/ \E currentStep \in steps : goBack(currentStep)
    \/ restartAssessment
    \/ timeout

Spec == Init /\ [][Next]_vars

\* The handlers called with any argument in any step as in Next, the answers
\* drawn from two option values per step and two checkbox records, and the
\* 300 ms timers of the browser expiring: a pending callback is eventually run.
LiveValues == {"small", "large", "low", "high", "none", "iso", "other"}
LiveBoxes == {d \in Infrastructures : d.cloud = d.supplyChain /\ d.mfa = d.incidentProcess /\ d.cloud = ~d.mfa}

NextLive ==
    \/ \E s \in steps : \E value \in OptionValues(s) \cap LiveValues : selectOption(s, value)
    \/ \E checkboxes \in LiveBoxes : validateStep3(checkboxes)
    \/ \E currentStep \in steps : goBack(currentStep)
    \/ restartAssessment
    \/ timeout

SpecLive == Init /\ [][NextLive]_vars /\ WF_vars(timeout)

\* The same handlers called as their parameters are documented (script.js:55
\* and 110, "Current step number"), from the controls of the panel goToStep
\* has made active: option cards on panels 1, 2 and 4, the checkbox form on
\* panel 3, the back button passing its own panel number, the restart button
\* on the results panel.
NextUI ==
    \/ \E s \in active \cap {1, 2, 4} : \E value \in OptionValues(s) : selectOption(s, value)
    \/ \E checkboxes \in Infrastructures : 3 \in active /\ validateStep3(checkboxes)
    \/ \E currentStep \in active : goBack(currentStep)
    \/ 5 \in active /\ restartAssessment
    \/ timeout

SpecUI == Init /\ [][NextUI]_vars

----
\* Vocabulary of the properties

AllSet(a) ==
    /\ a.entitySize \in EntitySizes
    /\ a.serviceSensitivity \in Sensitivities
    /\ a.governanceMaturity \in Maturities

\* the step of the system in which the pending calculateAndShowResults callback runs
CalcStep ==
    /\ timers # <<>>
    /\ Head(timers) = "calculateAndShowResults"
    /\ timers' = Tail(timers)

\* the rubric, as tables
SizeWeight == [e \in EntitySizes |-> CASE e = "large" -> 3 [] e = "medium" -> 2 [] e = "small" -> 1]
SensitivityWeight == [v \in Sensitivities |-> CASE v = "high" -> 3 [] v = "medium" -> 2 [] v = "low" -> 1]
GovernanceModifier == [g \in Maturities |-> CASE g = "none" -> 2 [] g = "basic" -> 1 [] g = "structured" -> -1 [] g = "iso" -> -2]
NaiveInfra(d) ==
    LET B(b, w) == IF b THEN w ELSE 0
    IN B(d.cloud, 1) + B(~d.mfa, 2) + B(~d.incidentProcess, 2) + B(d.supplyChain, 1)
RubricScore(a) ==
    LET n == NaiveInfra(a.digitalInfrastructure)
    IN SizeWeight[a.entitySize] + SensitivityWeight[a.serviceSensitivity]
       + (IF n > 3 THEN 3 ELSE n) + GovernanceModifier[a.governanceMaturity]
RubricTier(a) ==
    CASE RubricScore(a) >= 6 -> "tier-3"
      [] RubricScore(a) \in {4, 5} -> "tier-2"
      [] RubricScore(a) < 4 -> "tier-1"

----
\* C1: on every fully answered record, calculateTier returns the tier of the
\* rubric: size weight + sensitivity weight + min(infrastructure risk, 3) +
\* governance modifier, Tier3 from 6, Tier2 for 4 and 5, Tier1 below 4.
C1_TierIsRubricTier ==
    AllSet(answers) => calculateTier(answers) = RubricTier(answers)

\* a result shown for a record whose score is exactly the boundary 6
C1_Witness ==
    /\ AllSet(answers) /\ step = 5 /\ timers = <<>>
    /\ RubricScore(answers) = 6
    /\ tierBadge.className = "tier-3"

\* C2: whenever the tier calculator is invoked, entitySize, serviceSensitivity
\* and governanceMaturity are all set.
C2_CalcOnlyOnFullRecord ==
    [][CalcStep => AllSet(answers)]_vars

\* C3: every change of currentStep is a forward move by exactly one step, a
\* move back, or a restart to step 1: never forward by more than one.
C3_NoForwardSkip ==
    [][step' <= step + 1]_vars

C5_FlagsReplacedAtomically ==
    [][step = 3 => \A checkboxes \in Infrastructures : validateStep3(checkboxes) =>
           /\ answers'.digitalInfrastructure = checkboxes
           /\ answers'.entitySize = answers.entitySize
           /\ answers'.serviceSensitivity = answers.serviceSensitivity
           /\ answers'.governanceMaturity = answers.governanceMaturity
           /\ step' = 4
      ]_vars

\* flags differing from the defaults in all four positions have been submitted
C5_Witness ==
    /\ step = 4 /\ timers = <<>>
    /\ answers.digitalInfrastructure = [cloud |-> TRUE, mfa |-> TRUE, incidentProcess |-> TRUE, supplyChain |-> TRUE]
    /\ answers.entitySize = "large" /\ answers.serviceSensitivity = "high"
    /\ answers.governanceMaturity = null

\* C6: goBack issued in step k > 1 puts the session in step k - 1, issued in
\* step 1 it changes nothing, and it never changes the answers.
C6_GoBackOneStepKeepsAnswers ==
    [][goBack(step) =>
           /\ step' = IF step > 1 THEN step - 1 ELSE 1
           /\ answers' = answers
      ]_vars

\* back in step 1 with the answers of steps 1 to 4 still recorded
C6_Witness ==
    /\ step = 1 /\ timers = <<>>
    /\ AllSet(answers)
    /\ answers.digitalInfrastructure.mfa

\* C7: restart returns the session to the initial state and nothing carries
\* over: step 5 is reached again only after all answers have been re-entered.
C7_StepFiveOnlyAfterAllAnswers ==
    step = 5 => AllSet(answers)

C9_NoEventBeforeTransition ==
    [][timers # <<>> => timers' = Tail(timers)]_vars

\* C10: a selection for a step other than the current one, and a flag
\* submission outside step 3, change neither the answers nor the step, and
\* queue nothing that would change the step later.
C10_InvalidOperationRejected ==
    [][/\ \A s \in steps \ {step} : \A value \in OptionValues(s) :
              selectOption(s, value) => UNCHANGED <<answers, step, timers>>
       /\ step # 3 => \A checkboxes \in Infrastructures :
              validateStep3(checkboxes) => UNCHANGED <<answers, step, timers>>
      ]_vars

Tiers == {"tier-1", "tier-2", "tier-3"}
TierRank == [t \in Tiers |-> CASE t = "tier-1" -> 1 [] t = "tier-2" -> 2 [] t = "tier-3" -> 3]
SizeOrder == [e \in EntitySizes |-> CASE e = "small" -> 1 [] e = "medium" -> 2 [] e = "large" -> 3]
SensitivityOrder == [v \in Sensitivities |-> CASE v = "low" -> 1 [] v = "medium" -> 2 [] v = "high" -> 3]
MaturityOrder == [g \in Maturities |-> CASE g = "none" -> 1 [] g = "basic" -> 2 [] g = "structured" -> 3 [] g = "iso" -> 4]

\* C11: a calculation invoked on a record with an unset field fails: it
\* returns no tier, so nothing is shown and the session is not moved.
C11_CalcFailsOnUnsetRecord ==
    [][CalcStep /\ ~AllSet(answers) =>
           UNCHANGED <<tierBadge, resultContent, step>>]_vars

\* C12: on every fully answered record, in whatever step and after whatever
\* events, calculateTier returns one of the three tiers, the tier depends on
\* the record only, and the invocation leaves the record as it was.
C12_TotalAndPure ==
    [][/\ AllSet(answers) => calculateTier(answers) \in Tiers
       /\ CalcStep /\ AllSet(answers) =>
              /\ tierBadge'.className \in Tiers
              /\ tierBadge'.className = RubricTier(answers)
              /\ answers' = answers
      ]_vars

\* scenario A computed and shown
C12_Witness ==
    /\ step = 5
    /\ answers = [entitySize |-> "large", serviceSensitivity |-> "high",
                  digitalInfrastructure |-> [cloud |-> FALSE, mfa |-> TRUE, incidentProcess |-> TRUE, supplyChain |-> FALSE],
                  governanceMaturity |-> "iso"]
    /\ tierBadge.className = "tier-2"

\* C13: the infrastructure adds min(naive sum, 3) to the score: never more
\* than 3, and exactly 3 when the naive sum exceeds 3.
C13_InfrastructureCapped ==
    LET d == answers.digitalInfrastructure IN
    /\ infraContribution(d) <= 3
    /\ infraContribution(d) = IF NaiveInfra(d) > 3 THEN 3 ELSE NaiveInfra(d)
    /\ AllSet(answers) =>
           score(answers) - SizeWeight[answers.entitySize]
               - SensitivityWeight[answers.serviceSensitivity]
               - GovernanceModifier[answers.governanceMaturity]
             = (IF NaiveInfra(d) > 3 THEN 3 ELSE NaiveInfra(d))

\* a result computed for cloud, no mfa, no incident process: naive sum 5
C13_Witness ==
    /\ step = 5 /\ timers = <<>> /\ AllSet(answers)
    /\ answers.digitalInfrastructure = [cloud |-> TRUE, mfa |-> FALSE, incidentProcess |-> FALSE, supplyChain |-> FALSE]
    /\ NaiveInfra(answers.digitalInfrastructure) = 5
    /\ infraContribution(answers.digitalInfrastructure) = 3
    /\ tierBadge.className = calculateTier(answers)

\* C14: with all else fixed, a larger entitySize never gives a lower score,
\* and a higher serviceSensitivity never gives a lower score.
C14_ScoreMonotone ==
    AllSet(answers) =>
        /\ \A e \in EntitySizes :
               SizeOrder[e] >= SizeOrder[answers.entitySize] =>
                   score([answers EXCEPT !.entitySize = e]) >= score(answers)
        /\ \A v \in Sensitivities :
               SensitivityOrder[v] >= SensitivityOrder[answers.serviceSensitivity] =>
                   score([answers EXCEPT !.serviceSensitivity = v]) >= score(answers)

\* a result computed for a small entity of low sensitivity, which both have
\* larger values to compare with
C14_Witness ==
    /\ step = 5 /\ timers = <<>> /\ AllSet(answers)
    /\ answers.entitySize = "small" /\ answers.serviceSensitivity = "low"
    /\ score([answers EXCEPT !.entitySize = "large"]) > score(answers)
    /\ tierBadge.className = calculateTier(answers)

\* C15: re-answering a step overwrites: a selection made in step s when the
\* field of s is already recorded leaves exactly the new value in the field
\* (one value of the step's list, also shown as the selected card) and the
\* other fields unchanged; selecting the recorded value again changes nothing
\* in the record.
C15_ReanswerOverwrites ==
    [][/\ step = 1 /\ answers.entitySize # null =>
              \A value \in EntitySizes : selectOption(1, value) =>
                  /\ answers' = [answers EXCEPT !.entitySize = value]
                  /\ answers'.entitySize \in EntitySizes /\ selected'[1] = value
                  /\ value = answers.entitySize => answers' = answers
       /\ step = 2 /\ answers.serviceSensitivity # null =>
              \A value \in Sensitivities : selectOption(2, value) =>
                  /\ answers' = [answers EXCEPT !.serviceSensitivity = value]
                  /\ answers'.serviceSensitivity \in Sensitivities /\ selected'[2] = value
                  /\ value = answers.serviceSensitivity => answers' = answers
       /\ step = 4 /\ answers.governanceMaturity # null =>
              \A value \in Maturities : selectOption(4, value) =>
                  /\ answers' = [answers EXCEPT !.governanceMaturity = value]
                  /\ answers'.governanceMaturity \in Maturities /\ selected'[4] = value
                  /\ value = answers.governanceMaturity => answers' = answers
      ]_vars

\* step 1 answered twice before the session has left it
C15_Witness ==
    /\ step = 1 /\ timers = <<"goToStep2", "goToStep2">>
    /\ answers.entitySize = "small" /\ selected[1] = "small"
    /\ answers.serviceSensitivity = null

\* C16: the session starts in step 1 with every answer unset and every flag
\* false, and currentStep is always one of 1 to 5.
C16_StartsEmptyStepInRange ==
    /\ step = 1 /\ answers = emptyAnswers
    /\ [](step \in 1..5)

\* back in step 1 with an empty record after a complete run
C16_Witness ==
    /\ step = 1 /\ answers = emptyAnswers /\ timers = <<>>
    /\ tierBadge.className \in Tiers

\* C17: exactly one step panel is active, the panel of currentStep.
C17_OnlyCurrentPanelActive ==
    /\ Cardinality(active) = 1
    /\ active = {step}

\* panel 3 shown alone after the session has been through the results
C17_Witness ==
    /\ step = 3 /\ active = {3}
    /\ tierBadge.className \in Tiers /\ timers = <<>>

\* C18: with every event issued from the active panel, whenever the session
\* is in step 5 the badge and the result content show the tier of the answers
\* as they stand.
C18_ResultNeverStale ==
    step = 5 =>
        /\ tierBadge = [textContent |-> tierLabel(calculateTier(answers)),
                        className |-> calculateTier(answers)]
        /\ resultContent = tierTitle(calculateTier(answers))

\* the result of a small, low-sensitivity, iso-certified entity on display
C18_Witness ==
    /\ step = 5 /\ timers = <<>>
    /\ answers = [entitySize |-> "small", serviceSensitivity |-> "low",
                  digitalInfrastructure |-> [cloud |-> FALSE, mfa |-> TRUE, incidentProcess |-> TRUE, supplyChain |-> FALSE],
                  governanceMaturity |-> "iso"]
    /\ tierBadge.className = "tier-1"

Callbacks == {"goToStep2", "goToStep3", "calculateAndShowResults"}
Pending(k) == \E i \in 1..Len(timers) : timers[i] = k

\* C19: a queued transition is never cancelled: a selection leaves
\* currentStep as it is and queues its callback, the queue only loses its
\* oldest callback and only by running it, which puts the session in step 2,
\* in step 3, or computes the tier and puts it in step 5; with the timers
\* expiring the queue keeps being served (it is empty or its oldest callback
\* runs, again and again), so every pending callback runs: a pending
\* goToStep(2) leads to step 2, a pending goToStep(3) to step 3 and a pending
\* calculateAndShowResults to step 5, whatever events are processed meanwhile.
C19_DeferredTransitionNeverCancelled ==
    /\ [][/\ timers' # timers =>
                 \/ timeout
                 \/ \E k \in Callbacks : timers' = Append(timers, k) /\ step' = step
          /\ timeout /\ Head(timers) = "goToStep2" => step' = 2
          /\ timeout /\ Head(timers) = "goToStep3" => step' = 3
          /\ timeout /\ Head(timers) = "calculateAndShowResults" =>
                 step' = 5 /\ tierBadge'.className = calculateTier(answers)
         ]_vars
    /\ []<>(timers = <<>>) \/ []<><<timeout>>_vars
    /\ Pending("goToStep2") ~> step = 2
    /\ Pending("goToStep3") ~> step = 3
    /\ Pending("calculateAndShowResults") ~> step = 5

\* the callback of a step-4 selection has run although the session was
\* restarted after the selection
C19_Witness ==
    /\ step = 5 /\ timers = <<>>
    /\ answers = emptyAnswers
    /\ tierBadge.className = calculateTier(emptyAnswers)

\* C20: with all else fixed, a more mature governance never gives a higher
\* tier, and neither does turning mfa or incidentProcess from false to true.
C20_MitigationNeverRaisesTier ==
    AllSet(answers) =>
        LET d == answers.digitalInfrastructure
            t == TierRank[calculateTier(answers)]
        IN /\ \A g \in Maturities :
                  MaturityOrder[g] >= MaturityOrder[answers.governanceMaturity] =>
                      TierRank[calculateTier([answers EXCEPT !.governanceMaturity = g])] <= t
           /\ ~d.mfa =>
                  TierRank[calculateTier([answers EXCEPT !.digitalInfrastructure.mfa = TRUE])] <= t
           /\ ~d.incidentProcess =>
                  TierRank[calculateTier([answers EXCEPT !.digitalInfrastructure.incidentProcess = TRUE])] <= t

\* a Tier3 result without governance and without mfa, which iso
\* certification would lower
C20_Witness ==
    /\ step = 5 /\ timers = <<>> /\ AllSet(answers)
    /\ answers.governanceMaturity = "none" /\ ~answers.digitalInfrastructure.mfa
    /\ tierBadge.className = "tier-3" /\ calculateTier(answers) = "tier-3"
    /\ calculateTier([answers EXCEPT !.governanceMaturity = "iso"]) # "tier-3"

TypeOK ==
    /\ step \in steps
    /\ active = {step}
    /\ Len(timers) <= MaxTimers
====
